---- MODULE Spec2Model ----
(***************************************************************************)
(* A model of the vTDS demo application layer:                             *)
(*   - PrivateApplication (private_application.py): the deployment driver  *)
(*     prepare / validate / deploy / remove;                               *)
(*   - the mock FSM service (scripts/fsm.py) and the mock SCS service      *)
(*     (scripts/scs.py) and the requests they exchange.                    *)
(***************************************************************************)
EXTENDS Integers, Sequences, FiniteSets, TLC

VARIABLES
    \* ---- PrivateApplication ----
    prepared,     \* self.prepared
    config,       \* self.config: a mapping key -> value
    conf_file,    \* the file at self.app_config_path: [exists, text]
    cluster,      \* what the cluster API answers (the collaborator's data)
    orig_config,  \* the configuration handed to the constructor (history)
    ssh_log,      \* what the SSH layer did during the latest deploy()
    ssh_used,     \* whether any SSH session was ever asked for
    result,       \* the latest call and how it ended
    \* ---- the mock services ----
    my_muffin,    \* fsm.py MyData.my_muffin
    scs_map,      \* fsm.py MyData.scs_map, in insertion order
    my_scone,     \* scs.py MyData.my_scone, of each SCS
    fsm,          \* scs.py MyData.fsm, of each SCS
    last,         \* the latest request handled and what came of it
    sent,         \* the body of the latest accepted POST of a muffin / scone
    \* ---- the mock services' command line ----
    proc,         \* a mock's process: [prog, argv, state, port]
    \* ---- requests handled concurrently ----
    inflight      \* the requests in flight: [req, list, raced]

app_vars == <<prepared, config, conf_file, cluster, orig_config, ssh_log,
              ssh_used, result>>

mock_vars == <<my_muffin, scs_map, my_scone, fsm, last, sent, proc,
              inflight>>

vars == <<app_vars, mock_vars>>

(***************************************************************************)
(* Bounds of the model.                                                    *)
(***************************************************************************)
MaxNodes == 2
MaxLen == 1
MaxArgs == 2
MaxTokenLen == 2

\* Python's None
None == <<"None">>

(***************************************************************************)
(* The cluster layer's data, as the accessors used by prepare() see it.    *)
(***************************************************************************)
ClassSeq == <<"fsm_node", "scs_node">>
NetSeq == <<"net_a", "net_b">>
Classes == {ClassSeq[i] : i \in DOMAIN ClassSeq}
Nets == {NetSeq[i] : i \in DOMAIN NetSeq}

Clusters ==
    [net_names : [Classes -> SUBSET Nets],
     non_cluster : [Nets -> BOOLEAN],
     node_count : [Classes -> 0..MaxNodes],
     addr_count : 0..MaxNodes]

\* virtual_nodes.node_hostname(node_class, instance, network_name)
node_hostname(node_class, instance, network_name) ==
    <<node_class, instance, network_name>>

\* virtual_nodes.node_ipv4_addr(node_class, instance, network_name): the
\* first addr_count instances of a class have an address on a network.
node_ipv4_addr(cl, node_class, instance, network_name) ==
    IF instance < cl.addr_count
    THEN <<"ipv4", network_name, node_class, instance>>
    ELSE None

(***************************************************************************)
(* prepare(): the two comprehensions.                                      *)
(***************************************************************************)
\* (a variant that keeps the networks flagged non-cluster)
node_networks_unfiltered(cl) == [node_class \in Classes |-> cl.net_names[node_class]]

node_networks(cl) ==
    [node_class \in Classes |->
        {network_name \in cl.net_names[node_class] :
            ~cl.non_cluster[network_name]}]

host_ips_keys(cl) ==
    {t \in Classes \X (0..(MaxNodes - 1)) \X Nets :
        /\ t[3] \in node_networks(cl)[t[1]]
        /\ t[2] \in 0..(cl.node_count[t[1]] - 1)
        /\ node_ipv4_addr(cl, t[1], t[2], t[3]) # None}

host_ips(cl) ==
    [h \in {node_hostname(t[1], t[2], t[3]) : t \in host_ips_keys(cl)} |->
        node_ipv4_addr(cl, h[1], h[2], h[3])]

(***************************************************************************)
(* safe_dump(self.config, stream=conf): a YAML mapping, keys sorted, a     *)
(* nested mapping as a block of its own sorted entries.  The text is       *)
(* modelled as the sequence of its entries.                                *)
(***************************************************************************)
KeySeq == <<"fsm_port", "host_ipv4_map", "scs_port">>
Keys == {KeySeq[i] : i \in DOMAIN KeySeq}
HostMapKey == "host_ipv4_map"

IndexOf(seq, x) == CHOOSE i \in DOMAIN seq : seq[i] = x

HostRank(h) ==
    (IndexOf(ClassSeq, h[1]) * (MaxNodes + 1) + h[2]) * (Len(NetSeq) + 1)
        + IndexOf(NetSeq, h[3])

RECURSIVE SortHosts(_)
SortHosts(S) ==
    IF S = {} THEN <<>>
    ELSE LET m == CHOOSE x \in S : \A y \in S : HostRank(x) <= HostRank(y)
         IN <<m>> \o SortHosts(S \ {m})

dump_mapping(m) ==
    LET hosts == SortHosts(DOMAIN m)
    IN [i \in DOMAIN hosts |-> <<hosts[i], m[hosts[i]]>>]

dump_value(key, value) ==
    IF key = HostMapKey THEN dump_mapping(value) ELSE value

RECURSIVE dump_keys(_, _)
dump_keys(cfg, keys) ==
    IF keys = <<>> THEN <<>>
    ELSE (IF Head(keys) \in DOMAIN cfg
          THEN <<<<Head(keys), dump_value(Head(keys), cfg[Head(keys)])>>>>
          ELSE <<>>) \o dump_keys(cfg, Tail(keys))

safe_dump(cfg) == dump_keys(cfg, KeySeq)

\* What a YAML reader gets back from a text written by safe_dump.
load_mapping(block) ==
    [h \in {block[i][1] : i \in DOMAIN block} |->
        block[CHOOSE i \in DOMAIN block : block[i][1] = h][2]]

safe_load(text) ==
    [k \in {text[i][1] : i \in DOMAIN text} |->
        LET v == text[CHOOSE i \in DOMAIN text : text[i][1] = k][2]
        IN IF k = HostMapKey THEN load_mapping(v) ELSE v]

\* (a variant that replaces the configuration by the map alone)
set_only_host_ipv4_map(cfg, ips) == [k \in {HostMapKey} |-> ips]

\* self.config['host_ipv4_map'] = host_ips
set_host_ipv4_map(cfg, ips) ==
    [k \in DOMAIN cfg \cup {HostMapKey} |->
        IF k = HostMapKey THEN ips ELSE cfg[k]]

(***************************************************************************)
(* The node manifests, built once by the constructor.  Paths are kept      *)
(* symbolic: <<"script", N>> is script(N), <<"home", N>> is home(N),       *)
(* <<"build_dir", N>> is path_join(build_dir, N) and <<"/root", N>> is     *)
(* path_join(os.sep, 'root', N).                                           *)
(***************************************************************************)
AppConfigPath == <<"build_dir", "APP_CONFIG_NAME">>
HomeAppConfig == <<"home", "APP_CONFIG_NAME">>
DeployScriptHome == <<"home", "DEPLOY_SCRIPT_NAME">>
DeployScriptRoot == <<"/root", "DEPLOY_SCRIPT_NAME">>
NodeClassTemplate == "{{ node_class }}"

\* The order of the manifest dictionary's items(): insertion order.
ManifestOrder == <<"fsm_node", "scs_node", "non_fsm_node", "non_scs_node">>

node_manifests ==
    [fsm_node |->
        [files |-> << <<<<"script", "FSM_MOCK_NAME">>,
                        <<"home", "FSM_MOCK_NAME">>, "fsm-mock">>,
                      <<<<"script", "DEPLOY_SCRIPT_NAME">>,
                        DeployScriptHome, "node-deploy">>,
                      <<AppConfigPath, HomeAppConfig, "config">> >>,
         script |-> DeployScriptRoot],
     scs_node |->
        [files |-> << <<<<"script", "SCS_MOCK_NAME">>,
                        <<"home", "SCS_MOCK_NAME">>, "scs-mock">>,
                      <<<<"script", "DEPLOY_SCRIPT_NAME">>,
                        DeployScriptHome, "deploy">>,
                      <<AppConfigPath, HomeAppConfig, "config">> >>,
         script |-> DeployScriptRoot],
     non_fsm_node |->
        [files |-> << <<<<"script", "DEPLOY_SCRIPT_NAME">>,
                        DeployScriptHome, "node-deploy">>,
                      <<AppConfigPath, HomeAppConfig, "config">> >>,
         script |-> DeployScriptRoot],
     non_scs_node |->
        [files |-> << <<<<"script", "DEPLOY_SCRIPT_NAME">>,
                        DeployScriptHome, "node-deploy">>,
                      <<AppConfigPath, HomeAppConfig, "config">> >>,
         script |-> DeployScriptRoot]]

(***************************************************************************)
(* deploy(): what it asks of the SSH layer, in order.  An item is          *)
(*   <<"open", node_type>>          ssh_connect_nodes([node_type])         *)
(*   <<"copy_to", node_type, source, dest, logname>>                       *)
(*   <<"run_command", node_type, cmd, logname>>                            *)
(*   <<"close", node_type>>         the end of the with block              *)
(* The session of an item is the one opened for node_type, which is where  *)
(* the SSH layer resolves the {{ node_class }} of cmd.                     *)
(***************************************************************************)
\* The local variable cmd before its first assignment.
Unbound == <<"unbound">>

\* The command text, as the list of its parts.
deploy_cmd(deploy_script) ==
    <<"chmod 755", deploy_script, ";python3", deploy_script,
      NodeClassTemplate, HomeAppConfig>>

\* The loop over the files of one manifest; cmd is (re)assigned in its body.
RECURSIVE copy_files(_, _, _, _)
copy_files(node_type, files, deploy_script, cmd) ==
    IF files = <<>> THEN [items |-> <<>>, cmd |-> cmd]
    ELSE LET f == Head(files)
             rest == copy_files(node_type, Tail(files), deploy_script,
                                deploy_cmd(deploy_script))
         IN [items |->
                <<<<"copy_to", node_type, f[1], f[2],
                    <<"upload-application-to", f[3]>>>>>> \o rest.items,
             cmd |-> rest.cmd]

\* (a variant that runs the command inside the loop over the files)
deploy_node_type_run_in_loop(node_type, cmd) ==
    LET manifest == node_manifests[node_type]
        copied == copy_files(node_type, manifest.files, manifest.script, cmd)
        run == <<"run_command", node_type, copied.cmd, "run-app-deploy-script-on">>
    IN [items |->
            <<<<"open", node_type>>>>
            \o [i \in 1..(2 * Len(copied.items)) |->
                    IF i % 2 = 1 THEN copied.items[(i + 1) \div 2] ELSE run]
            \o <<<<"close", node_type>>>>,
        cmd |-> copied.cmd]

\* One iteration of the loop over the manifests.
deploy_node_type(node_type, cmd) ==
    LET manifest == node_manifests[node_type]
        copied == copy_files(node_type, manifest.files, manifest.script, cmd)
    IN [items |->
            <<<<"open", node_type>>>> \o copied.items
            \o <<<<"run_command", node_type, copied.cmd,
                   "run-app-deploy-script-on">>>>
            \o <<<<"close", node_type>>>>,
        cmd |-> copied.cmd]

RECURSIVE deploy_items(_, _)
deploy_items(node_types, cmd) ==
    IF node_types = <<>> THEN <<>>
    ELSE LET one == deploy_node_type(Head(node_types), cmd)
         IN one.items \o deploy_items(Tail(node_types), one.cmd)

\* The first run_command whose cmd was never assigned (a NameError), or 0.
name_error_at(items) ==
    LET bad == {i \in DOMAIN items :
                    items[i][1] = "run_command" /\ items[i][3] = Unbound}
    IN IF bad = {} THEN 0 ELSE CHOOSE i \in bad : \A j \in bad : i <= j

\* The loop of deploy() over self.node_manifests.items().
DeployItems == deploy_items(ManifestOrder, Unbound)
DeployNameErrorAt == name_error_at(DeployItems)

\* (a variant in which the loop goes on after item k raised)
performed_all(items, k) == items

\* What was done when item k raised: the items before it and, when k was
\* inside a with block, the block's exit.
performed(items, k) ==
    IF k = 0 THEN items
    ELSE SubSeq(items, 1, k - 1)
         \o (IF items[k][1] \in {"copy_to", "run_command"}
             THEN <<<<"close", items[k][2]>>>> ELSE <<>>)

(***************************************************************************)
(* PrivateApplication: the constructor and the four operations.            *)
(***************************************************************************)
StaleMap == [h \in {node_hostname("fsm_node", 0, "net_a")} |-> <<"ipv4", "stale">>]

\* The configurations handed to the constructor.
OrigConfigs ==
    {[k \in {} |-> "x"],
     [k \in {"fsm_port"} |-> "5000"],
     [k \in {"scs_port", HostMapKey} |-> IF k = HostMapKey THEN StaleMap ELSE "5001"]}

Result(op, outcome, at) == [op |-> op, outcome |-> outcome, at |-> at]

\* __init__
AppInit(clusters) ==
    /\ cluster \in clusters
    /\ orig_config \in OrigConfigs
    /\ config = orig_config
    /\ conf_file = [exists |-> FALSE, text |-> <<>>]
    /\ prepared = FALSE
    /\ ssh_log = <<>>
    /\ ssh_used = FALSE
    /\ result = Result("init", "ok", 0)

\* (a variant of the guard that lets every call through)
precondition_skipped(is_prepared) == TRUE

\* The guard that opens validate(), deploy() and remove().
precondition_ok(is_prepared) == is_prepared

\* (a variant of prepare() that sets the flag before it writes the file)
prepare_flag_first ==
    LET new_config == set_host_ipv4_map(config, host_ips(cluster))
        text == safe_dump(new_config)
    IN /\ \/ /\ result' = Result("prepare", "Error", 1)
             /\ UNCHANGED <<config, conf_file, prepared>>
          \/ /\ result' = Result("prepare", "Error", 2)
             /\ config' = new_config
             /\ prepared' = TRUE
             /\ UNCHANGED conf_file
          \/ /\ result' = Result("prepare", "Error", 3)
             /\ config' = new_config
             /\ \E n \in 0..(Len(text) - 1) :
                    conf_file' = [exists |-> TRUE, text |-> SubSeq(text, 1, n)]
             /\ prepared' = TRUE
          \/ /\ result' = Result("prepare", "ok", 0)
             /\ config' = new_config
             /\ conf_file' = [exists |-> TRUE, text |-> text]
             /\ prepared' = TRUE
       /\ UNCHANGED <<cluster, orig_config, ssh_log, ssh_used, mock_vars>>

\* prepare().  It may fail while it queries the cluster (nothing is changed
\* yet), when it opens the file (the configuration is already changed), or
\* while it writes (the file holds a part of the text).
prepare ==
    LET new_config == set_host_ipv4_map(config, host_ips(cluster))
        text == safe_dump(new_config)
    IN /\ \/ /\ result' = Result("prepare", "Error", 1)
             /\ UNCHANGED <<config, conf_file, prepared>>
          \/ /\ result' = Result("prepare", "Error", 2)
             /\ config' = new_config
             /\ UNCHANGED <<conf_file, prepared>>
          \/ /\ result' = Result("prepare", "Error", 3)
             /\ config' = new_config
             /\ \E n \in 0..(Len(text) - 1) :
                    conf_file' = [exists |-> TRUE, text |-> SubSeq(text, 1, n)]
             /\ UNCHANGED prepared
          \/ /\ result' = Result("prepare", "ok", 0)
             /\ config' = new_config
             /\ conf_file' = [exists |-> TRUE, text |-> text]
             /\ prepared' = TRUE
       /\ UNCHANGED <<cluster, orig_config, ssh_log, ssh_used, mock_vars>>

\* (a variant of validate() that takes the preparation back)
validate_unprepares ==
    /\ result' = IF precondition_ok(prepared)
                 THEN Result("validate", "ok", 0)
                 ELSE Result("validate", "ContextualError", 0)
    /\ prepared' = FALSE
    /\ UNCHANGED <<config, conf_file, cluster, orig_config, ssh_log, ssh_used,
                   mock_vars>>

\* validate()
validate ==
    /\ result' = IF precondition_ok(prepared)
                 THEN Result("validate", "ok", 0)
                 ELSE Result("validate", "ContextualError", 0)
    /\ UNCHANGED <<prepared, config, conf_file, cluster, orig_config, ssh_log,
                   ssh_used, mock_vars>>

\* remove()
remove ==
    /\ result' = IF precondition_ok(prepared)
                 THEN Result("remove", "ok", 0)
                 ELSE Result("remove", "ContextualError", 0)
    /\ UNCHANGED <<prepared, config, conf_file, cluster, orig_config, ssh_log,
                   ssh_used, mock_vars>>

\* deploy().  Any request to the SSH layer may raise; k = 0 is the run in
\* which none does.
deploy ==
    /\ IF ~precondition_ok(prepared)
       THEN /\ result' = Result("deploy", "ContextualError", 0)
            /\ UNCHANGED <<ssh_log, ssh_used>>
       ELSE LET items == DeployItems
                ne == DeployNameErrorAt
            IN \E k \in 0..Len(items) :
                LET at == IF ne # 0 /\ (k = 0 \/ k >= ne) THEN ne ELSE k
                IN /\ ssh_log' = performed(items, at)
                   /\ ssh_used' = TRUE
                   /\ result' =
                        IF at = 0 THEN Result("deploy", "ok", 0)
                        ELSE IF at = ne THEN Result("deploy", "NameError", at)
                        ELSE Result("deploy", "SshError", at)
    /\ UNCHANGED <<prepared, config, conf_file, cluster, orig_config, mock_vars>>

(***************************************************************************)
(* The mock services.  A text (a Python str) is the sequence of its code   *)
(* points; what travels in a request or response body is bytes.            *)
(***************************************************************************)
\* "I don't have a muffin, please give me one..."
DefaultMuffin ==
    <<73, 32, 100, 111, 110, 39, 116, 32, 104, 97, 118, 101, 32, 97, 32,
      109, 117, 102, 102, 105, 110, 44, 32, 112, 108, 101, 97, 115, 101,
      32, 103, 105, 118, 101, 32, 109, 101, 32, 111, 110, 101, 46, 46, 46>>

\* "I don't have a scone, please give me one..."
DefaultScone ==
    <<73, 32, 100, 111, 110, 39, 116, 32, 104, 97, 118, 101, 32, 97, 32,
      115, 99, 111, 110, 101, 44, 32, 112, 108, 101, 97, 115, 101, 32, 103,
      105, 118, 101, 32, 109, 101, 32, 111, 110, 101, 46, 46, 46>>

\* "scone crumbled - %s" % str(response), for a response of status 404
SconeCrumbled ==
    <<115, 99, 111, 110, 101, 32, 99, 114, 117, 109, 98, 108, 101, 100, 32,
      45, 32, 60, 82, 101, 115, 112, 111, 110, 115, 101, 32, 91, 52, 48,
      52, 93, 62>>

\* bytes.decode('UTF-8') of one character at the head of bs: the code point
\* and the number of bytes it takes, or n = 0 when the bytes are not UTF-8.
utf8_head(bs, p) ==
    LET b1 == bs[p]
        cont(i) == i <= Len(bs) /\ bs[i] >= 128 /\ bs[i] < 192
    IN IF b1 < 128 THEN [n |-> 1, cp |-> b1]
       ELSE IF b1 >= 194 /\ b1 < 224 /\ cont(p + 1)
       THEN [n |-> 2, cp |-> (b1 - 192) * 64 + (bs[p + 1] - 128)]
       ELSE IF b1 >= 224 /\ b1 < 240 /\ cont(p + 1) /\ cont(p + 2)
       THEN LET cp == (b1 - 224) * 4096 + (bs[p + 1] - 128) * 64
                        + (bs[p + 2] - 128)
            IN IF cp >= 2048 /\ ~(cp >= 55296 /\ cp < 57344)
               THEN [n |-> 3, cp |-> cp] ELSE [n |-> 0, cp |-> 0]
       ELSE [n |-> 0, cp |-> 0]

\* Decoding from position p on, text being what is decoded so far.
RECURSIVE utf8_decode_from(_, _, _)
utf8_decode_from(bs, p, text) ==
    IF p > Len(bs) THEN [ok |-> TRUE, text |-> text]
    ELSE LET h == utf8_head(bs, p)
         IN IF h.n = 0 THEN [ok |-> FALSE, text |-> <<>>]
            ELSE utf8_decode_from(bs, p + h.n, Append(text, h.cp))

utf8_decode(bs) == utf8_decode_from(bs, 1, <<>>)

\* str.encode('UTF-8'), for code points of the basic plane
utf8_char(cp) ==
    IF cp < 128 THEN <<cp>>
    ELSE IF cp < 2048 THEN <<192 + (cp \div 64), 128 + (cp % 64)>>
    ELSE <<224 + (cp \div 4096), 128 + ((cp \div 64) % 64), 128 + (cp % 64)>>

RECURSIVE utf8_encode_from(_, _, _)
utf8_encode_from(text, p, bs) ==
    IF p > Len(text) THEN bs
    ELSE utf8_encode_from(text, p + 1, bs \o utf8_char(text[p]))

utf8_encode(text) == utf8_encode_from(text, 1, <<>>)

(***************************************************************************)
(* Who is where.  An SCS is known to the FSM by the address its requests   *)
(* come from (request.remote_addr), which is also where it listens.        *)
(***************************************************************************)
ScsIds == {"scs1"}
\* The addresses requests to the FSM's /scs_list come from: the SCS, and a
\* host where no SCS listens.
Callers == ScsIds \cup {"client"}
FsmAddr == "fsm_addr"
FsmPort == "5000"
\* scs.py: server_port = "5000"
server_port == "5000"

\* How a call to a peer can end: the peer handles it, something answers
\* with an error status, or nothing answers (requests raises).
Outcomes == {"ok", "status_error", "unreachable"}

\* A Python dict with string keys: a function on the keys it has.
EmptyDict == <<>>
dict_set(d, k, v) == [x \in DOMAIN d \cup {k} |-> IF x = k THEN v ELSE d[x]]

\* A handler's outcome: the status and the body of the response, the body
\* under the kind of value it is: "text" a text in UTF-8, "json" a dumped
\* dict, "json_map" the dumped scs_map, "null" the dumped None, "str" and
\* "error" a message.  A handler that raises gives status 500.
Response(status, kind, val) ==
    [status |-> status, kind |-> kind,
     text |-> IF kind = "text" THEN val ELSE <<>>,
     json |-> IF kind = "json" THEN val ELSE <<>>,
     map |-> IF kind = "json_map" THEN val ELSE <<>>,
     str |-> IF kind \in {"str", "error"} THEN val ELSE ""]
Raised(what) == Response(500, "error", what)
response_ok(r) == r.status < 400

(***************************************************************************)
(* fsm.py: MyData                                                          *)
(***************************************************************************)
\* (a variant that keeps the first muffin)
give_muffin_refused(new_muffin) == DefaultMuffin

give_muffin(new_muffin) == new_muffin

map_ids(map) == {map[i][1] : i \in DOMAIN map}
map_index(map, id) == CHOOSE i \in DOMAIN map : map[i][1] = id

\* (a variant that adds a record at each registration)
add_scs_appended(map, scs_id, scs_info) == Append(map, <<scs_id, scs_info>>)

add_scs(map, scs_id, scs_info) ==
    IF scs_id \in map_ids(map)
    THEN [map EXCEPT ![map_index(map, scs_id)] = <<scs_id, scs_info>>]
    ELSE Append(map, <<scs_id, scs_info>>)

\* (a variant that forgets nothing)
del_scs_kept(map, scs_id) == map

del_scs(map, scs_id) == SelectSeq(map, LAMBDA e : e[1] # scs_id)

get_scs(map, scs_id) ==
    IF scs_id \in map_ids(map) THEN map[map_index(map, scs_id)][2] ELSE None

\* (a variant that drops the scone it is given)
new_scs_scone_dropped(map, scs_id, scone) == map

new_scs_scone(map, scs_id, scone) ==
    IF scs_id \in map_ids(map)
    THEN [i \in DOMAIN map |->
            IF map[i][1] = scs_id
            THEN <<scs_id, dict_set(map[i][2], "scone", scone)>> ELSE map[i]]
    ELSE map

(***************************************************************************)
(* scs.py: MyData                                                          *)
(***************************************************************************)
give_scone(new_scone) == new_scone
\* (a variant that stores the record without its muffin)
new_fsm_without_muffin(fsm_info) ==
    [k \in DOMAIN fsm_info \ {"muffin"} |-> fsm_info[k]]

\* (a variant that stores the record without its port)
new_fsm_port_lost(fsm_info) ==
    [k \in DOMAIN fsm_info \ {"port"} |-> fsm_info[k]]

new_fsm(fsm_info) == fsm_info

\* (a variant that keeps the record)
del_fsm_kept(old_fsm) == old_fsm

\* (a variant that leaves the muffin in the record)
del_fsm_muffin_left(old_fsm) ==
    [k \in DOMAIN old_fsm \cap {"muffin"} |-> old_fsm[k]]

del_fsm(old_fsm) == EmptyDict
new_fsm_muffin(the_fsm, muffin) == dict_set(the_fsm, "muffin", muffin)

(***************************************************************************)
(* scs.py: the '/scone' handler.                                           *)
(***************************************************************************)
SconeResult(scone, resp) == [scone |-> scone, resp |-> resp]
scone_returned(scone) == SconeResult(scone, Response(200, "text", utf8_encode(scone)))

scs_scone_post(scone, decoded) ==
    IF decoded.ok THEN scone_returned(give_scone(decoded.text))
    ELSE SconeResult(scone, Raised("UnicodeDecodeError"))

scs_scone(method, body, scone) ==
    IF method = "POST" THEN scs_scone_post(scone, utf8_decode(body))
    ELSE scone_returned(scone)

(***************************************************************************)
(* fsm.py: retrieve_scone(ip_addr, port) and the handlers.                 *)
(***************************************************************************)
\* The SCS listening at ip_addr:port, if any.
scs_at(ip_addr, port) ==
    IF ip_addr \in ScsIds /\ port = server_port THEN ip_addr ELSE "nobody"

Got(raised, text) == [raised |-> raised, text |-> text]

\* After url_get returned response.
scone_of(response) ==
    IF ~response_ok(response) THEN Got(FALSE, SconeCrumbled)
    ELSE Got(FALSE, utf8_decode(response.text).text)

\* raised: url_get raised; otherwise text is what retrieve_scone returns.
retrieve_scone(scones, ip_addr, port, outcome) ==
    IF outcome = "unreachable"
       \/ (outcome = "ok" /\ scs_at(ip_addr, port) = "nobody")
    THEN Got(TRUE, <<>>)
    ELSE IF outcome = "status_error"
    THEN scone_of(Response(404, "error", "not found"))
    ELSE scone_of(scs_scone("GET", <<>>, scones[ip_addr]).resp)

Refreshed(map, raised, calls) == [map |-> map, raised |-> raised, calls |-> calls]

\* The loop of GET /scs_list and GET /scs_list/<id> from item i on.
\* oc[ip_addr] is how the call to that SCS ends; calls lists the calls made.
RECURSIVE refresh_scones(_, _, _, _, _)
refresh_one(map, i, scones, oc, calls, ip_addr, got) ==
    IF got.raised THEN Refreshed(map, "ConnectionError", calls)
    ELSE refresh_scones(new_scs_scone(map, ip_addr, got.text), i + 1, scones,
                        oc, calls)

refresh_scones(map, i, scones, oc, calls) ==
    IF i > Len(map) THEN Refreshed(map, "no", calls)
    ELSE IF "port" \notin DOMAIN map[i][2]
    THEN Refreshed(map, "KeyError", calls)
    ELSE refresh_one(map, i, scones, oc,
                     Append(calls, <<map[i][1], oc[map[i][1]]>>), map[i][1],
                     retrieve_scone(scones, map[i][1], map[i][2]["port"],
                                    oc[map[i][1]]))

\* '/muffin'
MuffinResult(muffin, resp) == [muffin |-> muffin, resp |-> resp]
muffin_returned(muffin) ==
    MuffinResult(muffin, Response(200, "text", utf8_encode(muffin)))

fsm_muffin_post(muffin, decoded) ==
    IF decoded.ok THEN muffin_returned(give_muffin(decoded.text))
    ELSE MuffinResult(muffin, Raised("UnicodeDecodeError"))

fsm_muffin(method, body, muffin) ==
    IF method = "POST" THEN fsm_muffin_post(muffin, utf8_decode(body))
    ELSE muffin_returned(muffin)

\* '/scs_list'.  body is [valid, val]: whether the request body parses as
\* JSON, and the parsed value.
ListResult(map, resp, calls) == [map |-> map, resp |-> resp, calls |-> calls]
list_dumped(map) == ListResult(map, Response(200, "json_map", map), <<>>)

scs_list_get(r) ==
    ListResult(r.map,
               IF r.raised = "no" THEN Response(200, "json_map", r.map)
               ELSE Raised(r.raised),
               r.calls)

scs_list_post(remote_addr, body, map) ==
    IF ~body.valid THEN ListResult(map, Raised("JSONDecodeError"), <<>>)
    ELSE list_dumped(add_scs(map, remote_addr, body.val))

\* json.dumps(MyData.get_scs(scs_id)); the body is "null" for None
dumps_scs(map, scs_id) ==
    IF scs_id \in map_ids(map) THEN Response(200, "json", get_scs(map, scs_id))
    ELSE Response(200, "null", get_scs(map, scs_id))

scs_list_delete(scs_id, map) ==
    ListResult(del_scs(map, scs_id), dumps_scs(map, scs_id), <<>>)

fsm_scs_list(method, remote_addr, body, map, scones, oc) ==
    IF method = "GET" THEN scs_list_get(refresh_scones(map, 1, scones, oc, <<>>))
    ELSE IF method = "POST" THEN scs_list_post(remote_addr, body, map)
    ELSE scs_list_delete(remote_addr, map)

\* '/scs_list/<scs_id>'
scs_list_item_get(scs_id, r) ==
    ListResult(r.map,
               IF r.raised = "no" THEN dumps_scs(r.map, scs_id)
               ELSE Raised(r.raised),
               r.calls)

fsm_scs_list_item(method, scs_id, map, scones, oc) ==
    IF method = "GET"
    THEN scs_list_item_get(scs_id, refresh_scones(map, 1, scones, oc, <<>>))
    ELSE scs_list_delete(scs_id, map)

(***************************************************************************)
(* scs.py: the '/fsm' handler.  oc1 and oc2 are how its first and second   *)
(* call to the peer end.  The result holds the SCS's record, the FSM's     *)
(* scs_map (changed by the calls the FSM handled), the response and the    *)
(* calls made.                                                             *)
(***************************************************************************)
Json(val) == [valid |-> TRUE, val |-> val]
NotFound == Response(404, "error", "not found")

\* How a call to ip:port ends: only the FSM's address and port reach the FSM.
peer_outcome(ip, port, oc) ==
    IF ip = FsmAddr /\ port = FsmPort THEN oc
    ELSE IF oc = "ok" THEN "unreachable" ELSE oc

FsmResult(the_fsm, map, resp, calls) ==
    [fsm |-> the_fsm, map |-> map, resp |-> resp, calls |-> calls]

\* url_get(muffin_url): the response, when one comes.
get_muffin(muffin, oc) ==
    IF oc = "ok" THEN fsm_muffin("GET", <<>>, muffin).resp ELSE NotFound

\* (a variant in which the registration is answered and not stored)
post_register_unstored(scs, map, oc) ==
    IF oc = "ok" THEN list_dumped(map) ELSE ListResult(map, NotFound, <<>>)

\* url_post(register_url, json=register_data)
post_register(scs, map, oc) ==
    IF oc = "ok" THEN scs_list_post(scs, Json([port |-> server_port]), map)
    ELSE ListResult(map, NotFound, <<>>)

\* url_delete(delete_url)
delete_register(scs, map, oc) ==
    IF oc = "ok" THEN scs_list_delete(scs, map)
    ELSE ListResult(map, NotFound, <<>>)

fsm_dumped(the_fsm, map, calls) ==
    FsmResult(the_fsm, map, Response(200, "json", the_fsm), calls)

\* GET
fsm_get_pulled(the_fsm, map, oc, response) ==
    IF oc = "unreachable"
    THEN FsmResult(the_fsm, map, Raised("ConnectionError"), <<<<the_fsm["ip"], oc>>>>)
    ELSE IF ~response_ok(response)
    THEN FsmResult(the_fsm, map,
            Response(200, "str", "Getting muffin from FSM FAILED"), <<<<the_fsm["ip"], oc>>>>)
    ELSE fsm_dumped(new_fsm_muffin(the_fsm, utf8_decode(response.text).text),
                    map, <<<<the_fsm["ip"], oc>>>>)

fsm_get_pull(the_fsm, muffin, map, oc) ==
    fsm_get_pulled(the_fsm, map, oc, get_muffin(muffin, oc))

scs_fsm_get(the_fsm, muffin, map, oc1) ==
    IF DOMAIN the_fsm = {}
    THEN FsmResult(the_fsm, map, Response(200, "null", None), <<>>)
    ELSE IF ~({"ip", "port"} \subseteq DOMAIN the_fsm)
    THEN FsmResult(the_fsm, map, Raised("KeyError"), <<>>)
    ELSE fsm_get_pull(the_fsm, muffin, map,
                      peer_outcome(the_fsm["ip"], the_fsm["port"], oc1))

\* POST
fsm_post_pulled(the_fsm, fsm_data, map, o1, o2, response) ==
    IF o2 = "unreachable"
    THEN FsmResult(the_fsm, map, Raised("ConnectionError"), <<<<fsm_data["ip"], o1>>, <<fsm_data["ip"], o2>>>>)
    ELSE IF ~response_ok(response)
    THEN FsmResult(the_fsm, map,
            Response(200, "str", "Getting muffin from FSM FAILED"), <<<<fsm_data["ip"], o1>>, <<fsm_data["ip"], o2>>>>)
    ELSE fsm_dumped(new_fsm(dict_set(fsm_data, "muffin",
                                     utf8_decode(response.text).text)),
                    map, <<<<fsm_data["ip"], o1>>, <<fsm_data["ip"], o2>>>>)

fsm_post_registered(the_fsm, fsm_data, muffin, map, o1, o2, reg) ==
    IF o1 = "unreachable"
    THEN FsmResult(the_fsm, map, Raised("ConnectionError"), <<<<fsm_data["ip"], o1>>>>)
    ELSE IF ~response_ok(reg.resp)
    THEN FsmResult(the_fsm, map,
            Response(200, "str", "Register with FSM FAILED"), <<<<fsm_data["ip"], o1>>>>)
    ELSE fsm_post_pulled(the_fsm, fsm_data, reg.map, o1, o2,
                         get_muffin(muffin, o2))

fsm_post_register(scs, fsm_data, the_fsm, muffin, map, o1, o2) ==
    fsm_post_registered(the_fsm, fsm_data, muffin, map, o1, o2,
                        post_register(scs, map, o1))

scs_fsm_post(scs, body, the_fsm, muffin, map, oc1, oc2) ==
    IF ~body.valid
    THEN FsmResult(the_fsm, map, Raised("JSONDecodeError"), <<>>)
    ELSE IF ~({"ip", "port"} \subseteq DOMAIN body.val)
    THEN \* return None: not a response
         FsmResult(the_fsm, map, Raised("TypeError"), <<>>)
    ELSE fsm_post_register(scs, body.val, the_fsm, muffin, map,
            peer_outcome(body.val["ip"], body.val["port"], oc1),
            peer_outcome(body.val["ip"], body.val["port"], oc2))

\* DELETE
fsm_delete_sent(the_fsm, map, oc, del) ==
    IF oc = "unreachable"
    THEN FsmResult(the_fsm, map, Raised("ConnectionError"), <<<<the_fsm["ip"], oc>>>>)
    ELSE IF ~response_ok(del.resp)
    THEN FsmResult(the_fsm, map,
            Response(200, "str", "Register with FSM FAILED"), <<<<the_fsm["ip"], oc>>>>)
    ELSE FsmResult(del_fsm(the_fsm), del.map,
                   Response(200, "json", the_fsm), <<<<the_fsm["ip"], oc>>>>)

fsm_delete_send(scs, the_fsm, map, oc) ==
    fsm_delete_sent(the_fsm, map, oc, delete_register(scs, map, oc))

scs_fsm_delete(scs, the_fsm, map, oc1) ==
    IF ~({"ip", "port"} \subseteq DOMAIN the_fsm)
    THEN FsmResult(the_fsm, map, Raised("KeyError"), <<>>)
    ELSE fsm_delete_send(scs, the_fsm, map,
                         peer_outcome(the_fsm["ip"], the_fsm["port"], oc1))

(***************************************************************************)
(* The requests clients send.                                              *)
(***************************************************************************)
CodePoints == {233}

RECURSIVE TextsOfLen(_)
TextsOfLen(n) ==
    IF n = 0 THEN {<<>>}
    ELSE {<<c>> \o t : c \in CodePoints, t \in TextsOfLen(n - 1)}

Texts == UNION {TextsOfLen(n) : n \in 0..MaxLen}

\* The bodies POSTed to /muffin and /scone: texts in UTF-8, and one body
\* that is not UTF-8 (a Latin-1 e-acute).
NotUtf8 == <<233>>
TextBodies == {utf8_encode(t) : t \in Texts} \cup {NotUtf8}

\* The bodies POSTed to the FSM's /scs_list.
ListBodyNames == {"port", "no_port", "not_json"}
ListBody(name) ==
    IF name = "port" THEN Json([port |-> server_port])
    ELSE IF name = "no_port" THEN Json(EmptyDict)
    ELSE [valid |-> FALSE, val |-> EmptyDict]

\* The bodies POSTed to an SCS's /fsm.
FsmBodyNames == {"fsm", "fsm_echo", "other", "no_port", "no_ip", "not_json"}
FsmBody(name) ==
    IF name = "fsm" THEN Json([ip |-> FsmAddr, port |-> FsmPort])
    ELSE IF name = "fsm_echo"
    THEN Json([ip |-> FsmAddr, port |-> FsmPort, muffin |-> <<65>>])
    ELSE IF name = "other" THEN Json([ip |-> "other_addr", port |-> FsmPort])
    ELSE IF name = "no_port" THEN Json([ip |-> FsmAddr])
    ELSE IF name = "no_ip" THEN Json([port |-> FsmPort])
    ELSE [valid |-> FALSE, val |-> EmptyDict]

\* The <scs_id> of /scs_list/<scs_id>.
ItemIds == Callers

\* How the calls of a GET on the registry can end, one per registered
\* address; where no SCS listens, nothing answers.
RefreshOutcomes(map) ==
    {oc \in [map_ids(map) -> Outcomes] :
        \A a \in map_ids(map) : a \notin ScsIds => oc[a] = "unreachable"}

\* How the calls of a POST on /fsm can end: the first, and the second.
PostOutcomes(name) ==
    IF name \in {"no_port", "no_ip", "not_json"} THEN {<<"ok", "ok">>}
    ELSE {<<"status_error", "ok">>, <<"unreachable", "ok">>}
         \cup (IF name = "other" THEN {}
               ELSE {<<"ok", oc2>> : oc2 \in Outcomes})

\* How the call of a GET or DELETE on /fsm can end.
StoredOutcomes(the_fsm) == IF DOMAIN the_fsm = {} THEN {"ok"} ELSE Outcomes

NoPost == <<-1>>

\* What a request carried: its body (of /muffin and /scone), the address it
\* came from or the <scs_id> of its path, the name of its JSON body.
Arg(body, scs_id, name) == [body |-> body, scs_id |-> scs_id, name |-> name]

Last(server, method, path, arg, resp, calls) ==
    [server |-> server, method |-> method, path |-> path, arg |-> arg,
     resp |-> resp, calls |-> calls]

MockInit ==
    /\ my_muffin = DefaultMuffin
    /\ scs_map = <<>>
    /\ my_scone = [s \in ScsIds |-> DefaultScone]
    /\ fsm = [s \in ScsIds |-> EmptyDict]
    /\ last = Last("none", "none", "none", Arg(<<>>, "", ""), Response(200, "none", <<>>), <<>>)
    /\ sent = [muffin |-> NoPost, scone |-> [s \in ScsIds |-> NoPost]]

\* The body of the latest POST that was answered normally.
accepted(old, body, resp) == IF response_ok(resp) THEN body ELSE old

(***************************************************************************)
(* Requests to the FSM.  r is what the handler gives.                      *)
(***************************************************************************)
MuffinHandled(method, body, r) ==
    /\ my_muffin' = r.muffin
    /\ last' = Last("fsm", method, "/muffin", Arg(body, "", ""), r.resp, <<>>)
    /\ sent' = IF method = "POST"
               THEN [sent EXCEPT !.muffin = accepted(@, body, r.resp)]
               ELSE sent
    /\ UNCHANGED <<scs_map, my_scone, fsm, proc, inflight, app_vars>>

ScsListHandled(method, path, scs_id, name, r) ==
    /\ scs_map' = r.map
    /\ last' = Last("fsm", method, path, Arg(<<>>, scs_id, name), r.resp, r.calls)
    /\ UNCHANGED <<my_muffin, my_scone, fsm, sent, proc, inflight, app_vars>>

FsmMuffinGet == MuffinHandled("GET", <<>>, fsm_muffin("GET", <<>>, my_muffin))

FsmMuffinPost ==
    \E body \in TextBodies :
        MuffinHandled("POST", body, fsm_muffin("POST", body, my_muffin))

FsmScsListGet ==
    \E oc \in RefreshOutcomes(scs_map) :
        ScsListHandled("GET", "/scs_list", "client", "",
            fsm_scs_list("GET", "client", Json(EmptyDict), scs_map, my_scone, oc))

FsmScsListPost ==
    \E remote_addr \in Callers, name \in ListBodyNames :
        ScsListHandled("POST", "/scs_list", remote_addr, name,
            fsm_scs_list("POST", remote_addr, ListBody(name), scs_map,
                         my_scone, <<>>))

FsmScsListDelete ==
    \E remote_addr \in Callers :
        ScsListHandled("DELETE", "/scs_list", remote_addr, "",
            fsm_scs_list("DELETE", remote_addr, Json(EmptyDict), scs_map,
                         my_scone, <<>>))

FsmScsItemGet ==
    \E scs_id \in ItemIds, oc \in RefreshOutcomes(scs_map) :
        ScsListHandled("GET", "/scs_list/<scs_id>", scs_id, "",
            fsm_scs_list_item("GET", scs_id, scs_map, my_scone, oc))

FsmScsItemDelete ==
    \E scs_id \in ItemIds :
        ScsListHandled("DELETE", "/scs_list/<scs_id>", scs_id, "",
            fsm_scs_list_item("DELETE", scs_id, scs_map, my_scone, <<>>))

(***************************************************************************)
(* Requests to an SCS.                                                     *)
(***************************************************************************)
SconeHandled(s, method, body, r) ==
    /\ my_scone' = [my_scone EXCEPT ![s] = r.scone]
    /\ last' = Last(s, method, "/scone", Arg(body, "", ""), r.resp, <<>>)
    /\ sent' = IF method = "POST"
               THEN [sent EXCEPT !.scone[s] = accepted(@, body, r.resp)]
               ELSE sent
    /\ UNCHANGED <<my_muffin, scs_map, fsm, proc, inflight, app_vars>>

FsmHandled(s, method, name, r) ==
    /\ fsm' = [fsm EXCEPT ![s] = r.fsm]
    /\ scs_map' = r.map
    /\ last' = Last(s, method, "/fsm", Arg(<<>>, "", name), r.resp, r.calls)
    /\ UNCHANGED <<my_muffin, my_scone, sent, proc, inflight, app_vars>>

ScsSconeGet ==
    \E s \in ScsIds :
        SconeHandled(s, "GET", <<>>, scs_scone("GET", <<>>, my_scone[s]))

ScsSconePost ==
    \E s \in ScsIds, body \in TextBodies :
        SconeHandled(s, "POST", body, scs_scone("POST", body, my_scone[s]))

ScsFsmGet ==
    \E s \in ScsIds : \E oc \in StoredOutcomes(fsm[s]) :
        FsmHandled(s, "GET", "", scs_fsm_get(fsm[s], my_muffin, scs_map, oc))

ScsFsmPost ==
    \E s \in ScsIds, name \in FsmBodyNames : \E oc \in PostOutcomes(name) :
        FsmHandled(s, "POST", name,
            scs_fsm_post(s, FsmBody(name), fsm[s], my_muffin, scs_map,
                         oc[1], oc[2]))

ScsFsmDelete ==
    \E s \in ScsIds : \E oc \in StoredOutcomes(fsm[s]) :
        FsmHandled(s, "DELETE", "",
            scs_fsm_delete(s, fsm[s], scs_map, oc))

(***************************************************************************)
(* main(argv) of fsm.py and of scs.py.  A command-line word is the         *)
(* sequence of its characters.                                             *)
(***************************************************************************)
DigitChars == {"0", "5", "8"}
digit_value(c) == IF c = "0" THEN 0 ELSE IF c = "5" THEN 5 ELSE 8
digit_char(d) == IF d = 0 THEN "0" ELSE IF d = 5 THEN "5" ELSE "8"

\* int(arg): an optional sign, then digits; anything else is a ValueError.
RECURSIVE digits_value(_, _)
digits_value(ds, acc) ==
    IF ds = <<>> THEN acc
    ELSE digits_value(Tail(ds), 10 * acc + digit_value(Head(ds)))

py_int(arg) ==
    LET neg == arg # <<>> /\ Head(arg) = "-"
        ds == IF neg THEN Tail(arg) ELSE arg
        ok == ds # <<>> /\ \A i \in DOMAIN ds : ds[i] \in DigitChars
    IN [ok |-> ok,
        val |-> IF ~ok THEN 0
                ELSE IF neg THEN 0 - digits_value(ds, 0)
                ELSE digits_value(ds, 0)]

\* str(n)
RECURSIVE py_str_nat(_)
py_str_nat(n) ==
    IF n < 10 THEN <<digit_char(n)>>
    ELSE Append(py_str_nat(n \div 10), digit_char(n % 10))

py_str(n) == IF n < 0 THEN <<"-">> \o py_str_nat(0 - n) ELSE py_str_nat(n)

\* getopt(argv, "p:h"): the option list, or a GetoptError.
Opts(ok, optlist) == [ok |-> ok, optlist |-> optlist]

RECURSIVE getopt_from(_, _, _)
RECURSIVE do_shorts(_, _, _, _)
do_shorts(argv, i, j, opts) ==
    IF j > Len(argv[i]) THEN getopt_from(argv, i + 1, opts)
    ELSE IF argv[i][j] = "h"
    THEN do_shorts(argv, i, j + 1, Append(opts, <<"-h", <<>>>>))
    ELSE IF argv[i][j] = "p"
    THEN IF j < Len(argv[i])
         THEN getopt_from(argv, i + 1,
                Append(opts, <<"-p", SubSeq(argv[i], j + 1, Len(argv[i]))>>))
         ELSE IF i < Len(argv)
         THEN getopt_from(argv, i + 2, Append(opts, <<"-p", argv[i + 1]>>))
         ELSE Opts(FALSE, opts)
    ELSE Opts(FALSE, opts)

getopt_from(argv, i, opts) ==
    IF i > Len(argv) THEN Opts(TRUE, opts)
    ELSE IF Len(argv[i]) < 2 \/ argv[i][1] # "-" THEN Opts(TRUE, opts)
    ELSE IF argv[i] = <<"-", "-">> THEN Opts(TRUE, opts)
    ELSE IF argv[i][2] = "-" THEN Opts(FALSE, opts)
    ELSE do_shorts(argv, i, 2, opts)

getopt(argv) == getopt_from(argv, 1, <<>>)

\* How main() ends: in app.run(port = server_port), or by raising.
Ended(state, port) == [state |-> state, port |-> port]

\* app.run(host='0.0.0.0', port=server_port)
app_run(the_port) ==
    IF the_port = Unbound THEN Ended("UnboundLocalError", 0)
    ELSE Ended("run", py_int(the_port).val)

\* The loop over optlist from option i on; the_port is server_port.
RECURSIVE main_options(_, _, _)
main_options(optlist, i, the_port) ==
    IF i > Len(optlist) THEN app_run(the_port)
    ELSE IF optlist[i][1] # "-p" THEN main_options(optlist, i + 1, the_port)
    ELSE IF ~py_int(optlist[i][2]).ok THEN Ended("UsageError", 0)
    ELSE main_options(optlist, i + 1, py_str(py_int(optlist[i][2]).val))

main_parsed(parsed, the_port) ==
    IF ~parsed.ok THEN Ended("UsageError", 0)
    ELSE main_options(parsed.optlist, 1, the_port)

\* scs.py: server_port is the module's global, "5000" at the start.
ScsServerPort == <<"5", "0", "0", "0">>
scs_main(argv) == main_parsed(getopt(argv), ScsServerPort)

\* fsm.py: server_port is a local of main(), assigned by -p alone.
fsm_main(argv) == main_parsed(getopt(argv), Unbound)

\* The command lines.
ArgChars == {"-", "p", "h", "0", "8"}

RECURSIVE WordsOfLen(_)
WordsOfLen(n) ==
    IF n = 0 THEN {<<>>}
    ELSE {Append(w, c) : w \in WordsOfLen(n - 1), c \in ArgChars}

Words == UNION {WordsOfLen(n) : n \in 1..MaxTokenLen}

RECURSIVE ArgvsOfLen(_)
ArgvsOfLen(n) ==
    IF n = 0 THEN {<<>>}
    ELSE {Append(a, w) : a \in ArgvsOfLen(n - 1), w \in Words}

Argvs == UNION {ArgvsOfLen(n) : n \in 0..MaxArgs}

Proc(prog, argv, state, port) ==
    [prog |-> prog, argv |-> argv, state |-> state, port |-> port]

\* No mock was started from a command line.
NoProc == Proc("none", <<>>, "idle", 0)

MainInit == proc \in {Proc(prog, argv, "idle", 0) : prog \in {"fsm", "scs"},
                                                   argv \in Argvs}

Started(ended) == proc' = Proc(proc.prog, proc.argv, ended.state, ended.port)

\* entrypoint(USAGE_MSG, main) of fsm.py
FsmMain ==
    /\ proc.prog = "fsm" /\ proc.state = "idle"
    /\ Started(fsm_main(proc.argv))
    /\ UNCHANGED <<app_vars, my_muffin, scs_map, my_scone, fsm, last, sent,
                   inflight>>

\* entrypoint(USAGE_MSG, main) of scs.py
ScsMain ==
    /\ proc.prog = "scs" /\ proc.state = "idle"
    /\ Started(scs_main(proc.argv))
    /\ UNCHANGED <<app_vars, my_muffin, scs_map, my_scone, fsm, last, sent,
                   inflight>>

(***************************************************************************)
(* The handlers run by several threads (Flask's server handles each        *)
(* request in a thread of its own).  A handler gives way to the others     *)
(* where it waits for its call to the peer; between two waits it runs      *)
(* alone.  The peer is reachable throughout.                               *)
(***************************************************************************)
Threads == {"t1", "t2"}
RaceScs == "scs1"

\* A request to the SCS's '/fsm' in a thread: where it is, the locals
\* fsm_data and response.text, and how it was answered.
Req(pc, data, text, resp) == [pc |-> pc, data |-> data, text |-> text, resp |-> resp]
Done(resp) == Req("done", EmptyDict, <<>>, resp)

\* The FSM's GET '/scs_list': where it is, the position and the size the
\* iterator of scs_map.items() holds, and the locals ip_addr and scone.
Iter(pc, pos, size, ip_addr, scone) ==
    [pc |-> pc, pos |-> pos, size |-> size, ip_addr |-> ip_addr, scone |-> scone]

Quiet ==
    [req |-> [t \in Threads |-> Req("idle", EmptyDict, <<>>, "")],
     list |-> Iter("idle", 0, 0, "", <<>>),
     raced |-> FALSE]

req_waiting(t) == inflight.req[t].pc \notin {"idle", "done"}
list_waiting == inflight.list.pc = "pulling"

\* A request begins in thread t while another is in flight.
overlaps(t) == list_waiting \/ \E u \in Threads \ {t} : req_waiting(u)

\* The iteration is followed through the first change of the size of
\* scs_map, which is the change its next step detects.
list_follows == ~list_waiting \/ Len(scs_map) = inflight.list.size

ReqStep(t, r, begins) ==
    inflight' = [inflight EXCEPT !.req[t] = r,
                                 !.raced = @ \/ (begins /\ overlaps(t))]

\* GET /fsm up to url_get(muffin_url), which the FSM answers.
RaceGetCall(t) ==
    /\ ~req_waiting(t)
    /\ ReqStep(t, IF DOMAIN fsm[RaceScs] = {} THEN Done("null")
                  ELSE IF ~({"ip", "port"} \subseteq DOMAIN fsm[RaceScs])
                  THEN Done("KeyError")
                  ELSE Req("get_called", EmptyDict,
                           utf8_decode(get_muffin(my_muffin, "ok").text).text, ""),
               TRUE)
    /\ UNCHANGED <<app_vars, my_muffin, scs_map, my_scone, fsm, last, sent, proc>>

\* GET /fsm from the answer on: MyData.new_fsm_muffin(response.text)
RaceGetReturn(t) ==
    /\ inflight.req[t].pc = "get_called"
    /\ fsm' = [fsm EXCEPT ![RaceScs] = new_fsm_muffin(@, inflight.req[t].text)]
    /\ ReqStep(t, Done("json"), FALSE)
    /\ UNCHANGED <<app_vars, my_muffin, scs_map, my_scone, last, sent, proc>>

\* DELETE /fsm up to url_delete(delete_url), which the FSM handles.
RaceDeleteCall(t) ==
    /\ ~req_waiting(t)
    /\ list_follows
    /\ IF ~({"ip", "port"} \subseteq DOMAIN fsm[RaceScs])
       THEN ReqStep(t, Done("KeyError"), TRUE) /\ UNCHANGED scs_map
       ELSE /\ scs_map' = delete_register(RaceScs, scs_map, "ok").map
            /\ ReqStep(t, Req("delete_called", EmptyDict, <<>>, ""), TRUE)
    /\ UNCHANGED <<app_vars, my_muffin, my_scone, fsm, last, sent, proc>>

\* DELETE /fsm from the answer on: MyData.del_fsm()
RaceDeleteReturn(t) ==
    /\ inflight.req[t].pc = "delete_called"
    /\ fsm' = [fsm EXCEPT ![RaceScs] = del_fsm(@)]
    /\ ReqStep(t, Done("json"), FALSE)
    /\ UNCHANGED <<app_vars, my_muffin, scs_map, my_scone, last, sent, proc>>

\* POST /fsm up to url_post(register_url), which the FSM handles.
RacePostCall(t) ==
    /\ ~req_waiting(t)
    /\ list_follows
    /\ scs_map' = post_register(RaceScs, scs_map, "ok").map
    /\ ReqStep(t, Req("post_registered", FsmBody("fsm").val, <<>>, ""), TRUE)
    /\ UNCHANGED <<app_vars, my_muffin, my_scone, fsm, last, sent, proc>>

\* POST /fsm from the answer to url_get(muffin_url), which the FSM answers.
RacePostPull(t) ==
    /\ inflight.req[t].pc = "post_registered"
    /\ ReqStep(t, Req("post_pulled", inflight.req[t].data,
                      utf8_decode(get_muffin(my_muffin, "ok").text).text, ""),
               FALSE)
    /\ UNCHANGED <<app_vars, my_muffin, scs_map, my_scone, fsm, last, sent, proc>>

\* POST /fsm from the second answer on: MyData.new_fsm(fsm_data)
RacePostReturn(t) ==
    /\ inflight.req[t].pc = "post_pulled"
    /\ fsm' = [fsm EXCEPT ![RaceScs] =
                new_fsm(dict_set(inflight.req[t].data, "muffin",
                                 inflight.req[t].text))]
    /\ ReqStep(t, Done("json"), FALSE)
    /\ UNCHANGED <<app_vars, my_muffin, scs_map, my_scone, last, sent, proc>>

\* POST /muffin at the FSM: it waits for nobody.
RaceMuffinPost ==
    /\ \E body \in TextBodies :
            my_muffin' = fsm_muffin("POST", body, my_muffin).muffin
    /\ my_muffin' # my_muffin
    /\ UNCHANGED <<app_vars, scs_map, my_scone, fsm, last, sent, proc, inflight>>

\* The iterator's next item and the call of retrieve_scone for it.
list_next(map, pos, size) ==
    IF Len(map) # size THEN Iter("RuntimeError", pos, size, "", <<>>)
    ELSE IF pos > Len(map) THEN Iter("ok", pos, size, "", <<>>)
    ELSE Iter("pulling", pos, size, map[pos][1],
              retrieve_scone(my_scone, map[pos][1], map[pos][2]["port"], "ok").text)

\* GET /scs_list up to its first call of retrieve_scone.
RaceListStart ==
    /\ ~list_waiting
    /\ inflight' = [inflight EXCEPT
            !.list = list_next(scs_map, 1, Len(scs_map)),
            !.raced = @ \/ \E u \in Threads : req_waiting(u)]
    /\ UNCHANGED <<app_vars, my_muffin, scs_map, my_scone, fsm, last, sent, proc>>

\* GET /scs_list from an answer on: MyData.new_scs_scone(ip_addr, scone),
\* then the next item, or the end of the loop.
RaceListStore ==
    /\ list_waiting
    /\ scs_map' = new_scs_scone(scs_map, inflight.list.ip_addr, inflight.list.scone)
    /\ inflight' = [inflight EXCEPT
            !.list = list_next(scs_map', inflight.list.pos + 1, inflight.list.size)]
    /\ UNCHANGED <<app_vars, my_muffin, my_scone, fsm, last, sent, proc>>

(***************************************************************************)
(* The specifications.                                                     *)
(***************************************************************************)
\* The clusters of the driver's specification: every class on every
\* network, one node of each class.
SmallClusters ==
    {cl \in Clusters :
        /\ \A c \in Classes : cl.net_names[c] = Nets /\ cl.node_count[c] = 1
        /\ cl.addr_count = 1}

OneCluster == {cl \in SmallClusters : \A n \in Nets : ~cl.non_cluster[n]}

Init == AppInit(SmallClusters) /\ MockInit /\ proc = NoProc /\ inflight = Quiet

Next == prepare \/ validate \/ deploy \/ remove

\* The deployment driver.
Spec == Init /\ [][Next]_vars

\* prepare() over every answer of the cluster layer.
PrepareInit == AppInit(Clusters) /\ MockInit /\ proc = NoProc /\ inflight = Quiet

PrepareSpec == PrepareInit /\ [][prepare]_vars

\* The two mock services, one request at a time.
MockInitAll ==
    AppInit(OneCluster) /\ orig_config = <<>> /\ MockInit /\ proc = NoProc /\ inflight = Quiet

MockNext ==
    \/ FsmMuffinGet \/ FsmMuffinPost
    \/ FsmScsListGet \/ FsmScsListPost \/ FsmScsListDelete
    \/ FsmScsItemGet \/ FsmScsItemDelete
    \/ ScsSconeGet \/ ScsSconePost
    \/ ScsFsmGet \/ ScsFsmPost \/ ScsFsmDelete

MockSpec == MockInitAll /\ [][MockNext]_vars

\* The two command lines.
MainInitAll ==
    /\ AppInit(OneCluster) /\ orig_config = <<>> /\ MockInit /\ MainInit
    /\ inflight = Quiet

MainNext == FsmMain \/ ScsMain

MainSpec == MainInitAll /\ [][MainNext]_vars

\* One SCS and the FSM, the FSM's registry being changed by nobody but the
\* SCS's '/fsm' handler.
PairNext ==
    \/ FsmMuffinGet \/ FsmMuffinPost
    \/ FsmScsListGet \/ FsmScsItemGet
    \/ ScsSconeGet \/ ScsSconePost
    \/ ScsFsmGet \/ ScsFsmPost \/ ScsFsmDelete

PairSpec == MockInitAll /\ [][PairNext]_vars

\* The handlers in threads.
RaceNext ==
    \/ \E t \in Threads :
        \/ RaceGetCall(t) \/ RaceGetReturn(t)
        \/ RaceDeleteCall(t) \/ RaceDeleteReturn(t)
        \/ RacePostCall(t) \/ RacePostPull(t) \/ RacePostReturn(t)
    \/ RaceMuffinPost
    \/ RaceListStart \/ RaceListStore

RaceSpec == MockInitAll /\ [][RaceNext]_vars

(***************************************************************************)
(* The claims about the deployment driver.                                 *)
(***************************************************************************)

\* C1: as long as prepare() has not completed, every deploy(), validate()
\* and remove() ends with the ContextualError of the precondition, and no
\* SSH session was opened, no file copied and no command run.
C1_UnpreparedCallsFail ==
    ~prepared =>
        /\ ssh_log = <<>>
        /\ ~ssh_used
        /\ result.op \in {"deploy", "validate", "remove"} =>
                result.outcome = "ContextualError"

\* a deploy() refused after a prepare() that failed while writing the file
C1_Witness ==
    /\ ~prepared
    /\ conf_file.exists
    /\ result.op = "deploy"
    /\ result.outcome = "ContextualError"

\* C2: after prepare(), host_ipv4_map maps the hostname of (class, instance,
\* network) to its IPv4 address exactly for the instances below the class's
\* node count on the networks of the class that are not flagged non-cluster
\* and on which the node has an address.
C2_HostMapExact ==
    prepared =>
        /\ HostMapKey \in DOMAIN config
        /\ \A c \in Classes, i \in 0..(MaxNodes - 1), n \in Nets :
            LET wanted == /\ n \in cluster.net_names[c]
                          /\ ~cluster.non_cluster[n]
                          /\ i < cluster.node_count[c]
                          /\ node_ipv4_addr(cluster, c, i, n) # None
                h == node_hostname(c, i, n)
            IN /\ wanted <=> h \in DOMAIN config[HostMapKey]
               /\ wanted => config[HostMapKey][h] = node_ipv4_addr(cluster, c, i, n)
        /\ \A h \in DOMAIN config[HostMapKey] :
            \E c \in Classes, i \in 0..(MaxNodes - 1), n \in Nets :
                h = node_hostname(c, i, n)

\* a prepared application whose map has entries, leaves out a non-cluster
\* network and leaves out an instance without an address
C2_Witness ==
    /\ prepared
    /\ DOMAIN config[HostMapKey] # {}
    /\ \E n \in Nets : cluster.non_cluster[n]
                       /\ \E c \in Classes : n \in cluster.net_names[c]
                                             /\ cluster.node_count[c] > 0
    /\ \E c \in Classes : cluster.node_count[c] > cluster.addr_count
                          /\ cluster.addr_count > 0
                          /\ \E n \in cluster.net_names[c] : ~cluster.non_cluster[n]

\* C3: after a prepare() that completed, the file holds every key of the
\* configuration the application was built with, each key but host_ipv4_map
\* with its original value, and host_ipv4_map with the computed map.
C3_FileHoldsConfig ==
    (result.op = "prepare" /\ result.outcome = "ok") =>
        /\ conf_file.exists
        /\ DOMAIN safe_load(conf_file.text) = DOMAIN orig_config \cup {HostMapKey}
        /\ \A k \in DOMAIN orig_config \ {HostMapKey} :
                safe_load(conf_file.text)[k] = orig_config[k]
        /\ safe_load(conf_file.text)[HostMapKey] = config[HostMapKey]

\* the file written for a configuration that had another key, and a stale
\* host_ipv4_map of its own
C3_Witness ==
    /\ result.op = "prepare" /\ result.outcome = "ok"
    /\ {"scs_port", HostMapKey} \subseteq DOMAIN orig_config
    /\ config[HostMapKey] # orig_config[HostMapKey]
    /\ Len(conf_file.text) = 2

\* What C4 says of one node class: its session, the copies of its manifest
\* in order, one run of its deploy script with the node class and the
\* remote configuration path as arguments, the end of the session.
C4_Session(c) ==
    LET files == node_manifests[c].files
    IN <<<<"open", c>>>>
       \o [i \in 1..Len(files) |->
            <<"copy_to", c, files[i][1], files[i][2],
              <<"upload-application-to", files[i][3]>>>>]
       \o << <<"run_command", c,
               <<"chmod 755", node_manifests[c].script, ";python3",
                 node_manifests[c].script, NodeClassTemplate, HomeAppConfig>>,
               "run-app-deploy-script-on">>,
             <<"close", c>> >>

C4_OpenSessions(log, n) ==
    Cardinality({i \in 1..n : log[i][1] = "open"})
        - Cardinality({i \in 1..n : log[i][1] = "close"})

\* C4: a deploy() that completes has, for each node class in manifest order,
\* opened one session, copied the files of the manifest in order, then run
\* the deploy script once and closed the session; at no point of any
\* deploy() are two sessions open.
C4_DeployOrder ==
    /\ result.op = "deploy" /\ result.outcome = "ok" =>
            ssh_log = C4_Session(ManifestOrder[1]) \o C4_Session(ManifestOrder[2])
                      \o C4_Session(ManifestOrder[3]) \o C4_Session(ManifestOrder[4])
    /\ \A n \in 0..Len(ssh_log) : C4_OpenSessions(ssh_log, n) \in {0, 1}
    /\ \A i \in DOMAIN ssh_log :
            ssh_log[i][1] \in {"copy_to", "run_command"} =>
                /\ C4_OpenSessions(ssh_log, i) = 1
                /\ \E j \in 1..(i - 1) :
                    /\ ssh_log[j] = <<"open", ssh_log[i][2]>>
                    /\ \A k \in (j + 1)..i : ssh_log[k][1] # "open"

\* a deploy() that ran to its end
C4_Witness ==
    /\ prepared
    /\ result.op = "deploy"
    /\ result.outcome = "ok"
    /\ Len(ssh_log) > Len(ManifestOrder)

C15_Requests ==
    C4_Session(ManifestOrder[1]) \o C4_Session(ManifestOrder[2])
    \o C4_Session(ManifestOrder[3]) \o C4_Session(ManifestOrder[4])

\* C15: when request number k to the SSH layer fails, deploy() ends with
\* that failure, the application stays prepared, and what was done is the
\* requests before k and nothing after it but, when k was a copy or a run,
\* the end of the session of its node class.
C15_SshFailurePropagates ==
    (result.op = "deploy" /\ result.outcome = "SshError") =>
        /\ prepared
        /\ result.at \in DOMAIN C15_Requests
        /\ Len(ssh_log) \in {result.at - 1, result.at}
        /\ SubSeq(ssh_log, 1, result.at - 1)
                = SubSeq(C15_Requests, 1, result.at - 1)
        /\ Len(ssh_log) = result.at =>
                /\ C15_Requests[result.at][1] \in {"copy_to", "run_command"}
                /\ ssh_log[result.at] = <<"close", C15_Requests[result.at][2]>>

\* the first copy to the second node class failed: its session was closed
\* and nothing else was done
C15_Witness ==
    /\ result.op = "deploy" /\ result.outcome = "SshError"
    /\ C15_Requests[result.at][1] = "copy_to"
    /\ C15_Requests[result.at - 1] = <<"open", ManifestOrder[2]>>
    /\ ssh_log[Len(ssh_log)] = <<"close", ManifestOrder[2]>>

\* C17: prepared is false at construction; it changes only from false to
\* true, in a prepare() that completed and wrote the whole file; a prepare()
\* that fails leaves it as it was, and while it is false deploy(), validate()
\* and remove() fail with the precondition error and leave it false.
C17_PreparedLifecycle ==
    /\ ~prepared
    /\ [][/\ prepared' # prepared =>
                /\ ~prepared /\ prepared'
                /\ result' = Result("prepare", "ok", 0)
                /\ conf_file'.exists
                /\ conf_file'.text = safe_dump(config')
          /\ (result'.op = "prepare" /\ result'.outcome # "ok") =>
                prepared' = prepared
          /\ (~prepared /\ result'.op \in {"deploy", "validate", "remove"}) =>
                (result'.outcome = "ContextualError" /\ ~prepared')]_vars

\* a remove() refused after a prepare() that had changed the configuration
\* and written a part of the file
C17_Witness ==
    /\ ~prepared
    /\ result = Result("remove", "ContextualError", 0)
    /\ config # orig_config
    /\ conf_file.exists
    /\ conf_file.text # safe_dump(config)

(***************************************************************************)
(* The claims about the mock services.                                     *)
(***************************************************************************)

\* C5: a GET of the FSM's /muffin returns exactly the body of the latest
\* POST /muffin the FSM answered, whatever other requests came in between;
\* a GET of an SCS's /scone returns the body of the latest POST /scone that
\* SCS answered.
C5_RoundTrip ==
    /\ (last.server = "fsm" /\ last.path = "/muffin" /\ last.method = "GET"
        /\ sent.muffin # NoPost)
            => last.resp = Response(200, "text", sent.muffin)
    /\ \A s \in ScsIds :
        (last.server = s /\ last.path = "/scone" /\ last.method = "GET"
         /\ sent.scone[s] # NoPost)
            => last.resp = Response(200, "text", sent.scone[s])

\* a GET that returns a posted two-byte muffin, with an SCS registered and
\* holding an older muffin
C5_Witness ==
    /\ last.server = "fsm" /\ last.path = "/muffin" /\ last.method = "GET"
    /\ sent.muffin = <<195, 169>>
    /\ \E s \in ScsIds : /\ s \in map_ids(scs_map)
                         /\ "muffin" \in DOMAIN fsm[s]
                         /\ fsm[s]["muffin"] # my_muffin

\* C6: when an SCS has handled POST /fsm and both of its calls reached the
\* FSM, its stored record has the posted ip and port and a muffin equal to
\* the FSM's muffin.
C6_PostStoresMuffin ==
    \A s \in ScsIds :
        (last.server = s /\ last.path = "/fsm" /\ last.method = "POST"
         /\ last.calls = <<<<FsmAddr, "ok">>, <<FsmAddr, "ok">>>>)
            => /\ {"ip", "port", "muffin"} \subseteq DOMAIN fsm[s]
               /\ fsm[s]["ip"] = FsmBody(last.arg.name).val["ip"]
               /\ fsm[s]["port"] = FsmBody(last.arg.name).val["port"]
               /\ fsm[s]["muffin"] = my_muffin
               /\ last.resp = Response(200, "json", fsm[s])

\* a POST whose body carried a muffin of its own, to an FSM whose muffin
\* had been replaced
C6_Witness ==
    /\ last.server \in ScsIds /\ last.path = "/fsm" /\ last.method = "POST"
    /\ last.calls = <<<<FsmAddr, "ok">>, <<FsmAddr, "ok">>>>
    /\ last.arg.name = "fsm_echo"
    /\ my_muffin = <<233>>

\* C7: when an SCS has handled DELETE /fsm and its call reached the FSM,
\* its stored record is empty and the FSM's scs_map has no entry for the
\* SCS's address.
C7_DeleteBothSides ==
    \A s \in ScsIds :
        (last.server = s /\ last.path = "/fsm" /\ last.method = "DELETE"
         /\ last.calls = <<<<FsmAddr, "ok">>>>)
            => /\ DOMAIN fsm[s] = {}
               /\ s \notin map_ids(scs_map)
               /\ last.resp.status = 200

\* a DELETE by a registered SCS, another address staying registered
C7_Witness ==
    /\ last.server \in ScsIds /\ last.path = "/fsm" /\ last.method = "DELETE"
    /\ last.calls = <<<<FsmAddr, "ok">>>>
    /\ last.resp.kind = "json"
    /\ map_ids(scs_map) = {"client"}

\* The stored record names the FSM as the peer.
C8_HoldsFsm(the_fsm) == "ip" \in DOMAIN the_fsm /\ the_fsm["ip"] = FsmAddr

\* The step is the FSM handling DELETE for an address it has registered.
C8_FsmDeletes ==
    /\ last'.server = "fsm"
    /\ last'.method = "DELETE"
    /\ last'.arg.scs_id \in map_ids(scs_map)

\* C8 (as the code has it): when the FSM handles DELETE on /scs_list or
\* /scs_list/<id> for a registered address, its scs_map loses exactly that
\* entry, it calls nobody, and every SCS's stored record stays as it was.
C8_DeleteIsLocal ==
    [][C8_FsmDeletes =>
        /\ scs_map' = SelectSeq(scs_map, LAMBDA e : e[1] # last'.arg.scs_id)
        /\ last'.arg.scs_id \notin map_ids(scs_map')
        /\ last'.calls = <<>>
        /\ fsm' = fsm]_vars

\* C8 (as stated): after the FSM handles DELETE for a registered SCS, the
\* scs_map has no entry for it and the SCS no longer holds the FSM as its
\* stored peer.
C8_DeleteNotifiesPeer ==
    [][(C8_FsmDeletes /\ last'.arg.scs_id \in ScsIds) =>
        /\ last'.arg.scs_id \notin map_ids(scs_map')
        /\ ~C8_HoldsFsm(fsm'[last'.arg.scs_id])]_vars

\* the FSM has deleted a registered SCS, which still holds the FSM
C8_Witness ==
    /\ last.server = "fsm" /\ last.method = "DELETE"
    /\ last.arg.scs_id \in ScsIds
    /\ last.resp.kind = "json"
    /\ last.arg.scs_id \notin map_ids(scs_map)
    /\ C8_HoldsFsm(fsm[last.arg.scs_id])

\* C9: after the FSM has handled GET /scs_list or GET /scs_list/<id> with
\* every registered SCS called and answering, every record of scs_map has
\* the scone of its SCS; after an SCS has handled GET /fsm with the FSM
\* answering, its record has the FSM's muffin.
C9_GetRefreshes ==
    /\ (last.server = "fsm" /\ last.method = "GET"
        /\ last.path \in {"/scs_list", "/scs_list/<scs_id>"}
        /\ Len(last.calls) = Len(scs_map)
        /\ \A i \in DOMAIN last.calls : last.calls[i][2] = "ok")
            => \A i \in DOMAIN scs_map :
                /\ "scone" \in DOMAIN scs_map[i][2]
                /\ scs_map[i][2]["scone"] = my_scone[scs_map[i][1]]
    /\ \A s \in ScsIds :
        (last.server = s /\ last.path = "/fsm" /\ last.method = "GET"
         /\ last.calls = <<<<FsmAddr, "ok">>>>)
            => /\ "muffin" \in DOMAIN fsm[s]
               /\ fsm[s]["muffin"] = my_muffin
               /\ last.resp = Response(200, "json", fsm[s])

\* a GET of the list that pulled a scone posted to the SCS
C9_Witness ==
    /\ last.server = "fsm" /\ last.method = "GET" /\ last.path = "/scs_list"
    /\ Len(scs_map) = 1
    /\ last.calls = <<<<scs_map[1][1], "ok">>>>
    /\ my_scone[scs_map[1][1]] = <<233>>

\* C10 (as stated): when a call the '/fsm' handler makes to the peer fails,
\* because nothing answers or because the answer is a failure, the handler
\* stops after that call, answers 200 with a failure string as the body,
\* and leaves the stored record as it was.
C10_FailureIsReported ==
    [][\A s \in ScsIds :
        (last'.server = s /\ last'.path = "/fsm" /\ last'.calls # <<>>
         /\ last'.calls[Len(last'.calls)][2] # "ok")
            => /\ last'.resp.status = 200
               /\ last'.resp.kind = "str"
               /\ fsm'[s] = fsm[s]]_vars

\* the FSM went silent after registering the SCS: the handler of POST /fsm
\* raised on its second call
C10_Witness ==
    /\ last.server \in ScsIds /\ last.path = "/fsm" /\ last.method = "POST"
    /\ last.calls = <<<<FsmAddr, "ok">>, <<FsmAddr, "unreachable">>>>
    /\ last.resp = Raised("ConnectionError")

\* C11 (as stated): whatever routed requests came before, a request whose
\* body is well formed and whose calls to the peer are all answered gets a
\* normal response: its handler does not raise.
C11_NoHandlerRaises ==
    (/\ last.arg.name # "not_json"
     /\ last.arg.body # NotUtf8
     /\ \A i \in DOMAIN last.calls : last.calls[i][2] = "ok")
        => /\ last.resp.kind # "error"
           /\ last.resp.status = 200

\* DELETE /fsm on an SCS that has no FSM registered raised KeyError
C11_Witness ==
    /\ last.server \in ScsIds /\ last.path = "/fsm" /\ last.method = "DELETE"
    /\ last.calls = <<>>
    /\ \A s \in ScsIds : DOMAIN fsm[s] = {}
    /\ last.resp = Raised("KeyError")

\* Every entry but the one keyed a is in both maps, with the same record.
C14_OthersKept(a) ==
    \A id \in (map_ids(scs_map) \cup map_ids(scs_map')) \ {a} :
        /\ id \in map_ids(scs_map) /\ id \in map_ids(scs_map')
        /\ get_scs(scs_map', id) = get_scs(scs_map, id)

\* C14: scs_map never holds two records for one address; a POST /scs_list
\* from address a that is answered leaves the entry keyed a holding the
\* posted body, a DELETE /scs_list from a leaves no entry keyed a, and both
\* leave every other entry as it was; a POST /fsm that is answered with the
\* record leaves the SCS with the posted body and the pulled muffin, and
\* nothing of the record it had.
C14_KeyedByCaller ==
    [][/\ Cardinality(map_ids(scs_map')) = Len(scs_map')
       /\ (last'.server = "fsm" /\ last'.path = "/scs_list"
           /\ last'.method = "POST" /\ last'.resp.status = 200) =>
            /\ last'.arg.scs_id \in map_ids(scs_map')
            /\ get_scs(scs_map', last'.arg.scs_id) = ListBody(last'.arg.name).val
            /\ C14_OthersKept(last'.arg.scs_id)
       /\ (last'.server = "fsm" /\ last'.path = "/scs_list"
           /\ last'.method = "DELETE") =>
            /\ last'.arg.scs_id \notin map_ids(scs_map')
            /\ C14_OthersKept(last'.arg.scs_id)
       /\ \A s \in ScsIds :
            (last'.server = s /\ last'.path = "/fsm" /\ last'.method = "POST"
             /\ last'.resp.kind = "json") =>
                /\ DOMAIN fsm'[s] = DOMAIN FsmBody(last'.arg.name).val \cup {"muffin"}
                /\ \A k \in DOMAIN fsm'[s] \ {"muffin"} :
                        fsm'[s][k] = FsmBody(last'.arg.name).val[k]
                /\ fsm'[s]["muffin"] = my_muffin]_vars

\* the SCS registered again from its address while another address was
\* registered after it: still two entries, the SCS's first
C14_Witness ==
    /\ last.server = "fsm" /\ last.path = "/scs_list" /\ last.method = "POST"
    /\ last.arg.scs_id = "scs1"
    /\ last.arg.name = "no_port"
    /\ Len(scs_map) = 2
    /\ scs_map[1] = <<"scs1", EmptyDict>>

\* C18: with its requests handled one at a time, an SCS's stored record is
\* empty or has both an ip and a port.
C18_RecordEmptyOrWhole ==
    \A s \in ScsIds :
        DOMAIN fsm[s] = {} \/ {"ip", "port"} \subseteq DOMAIN fsm[s]

\* an SCS that holds a record was sent a POST /fsm whose body has no port
C18_Witness ==
    /\ last.server \in ScsIds /\ last.path = "/fsm" /\ last.method = "POST"
    /\ last.arg.name = "no_port"
    /\ {"ip", "port", "muffin"} \subseteq DOMAIN fsm[last.server]

\* The FSM's entry for an address, if it has one.
C20_Entry(map, s) == IF s \in map_ids(map) THEN <<get_scs(map, s)>> ELSE <<>>

\* C20 (as stated): when an SCS's POST /fsm handler answers with a failure
\* string, the SCS's record and the FSM's entry for the SCS's address are
\* what they were before the request.
C20_PostAllOrNothing ==
    [][\A s \in ScsIds :
        (last'.server = s /\ last'.path = "/fsm" /\ last'.method = "POST"
         /\ last'.resp.kind = "str")
            => /\ fsm'[s] = fsm[s]
               /\ C20_Entry(scs_map', s) = C20_Entry(scs_map, s)]_vars

\* the register call was answered, the muffin pull was answered with a
\* failure: the handler reported the failure, the SCS holds no record and
\* the FSM holds an entry for it
C20_Witness ==
    /\ last.server \in ScsIds /\ last.path = "/fsm" /\ last.method = "POST"
    /\ last.calls = <<<<FsmAddr, "ok">>, <<FsmAddr, "status_error">>>>
    /\ last.resp = Response(200, "str", "Getting muffin from FSM FAILED")
    /\ DOMAIN fsm[last.server] = {}
    /\ scs_map = <<<<last.server, [port |-> server_port]>>>>

C12_NoPortOption ==
    /\ getopt(proc.argv).ok
    /\ \A i \in DOMAIN getopt(proc.argv).optlist :
            getopt(proc.argv).optlist[i][1] # "-p"

\* C12 (as stated): a mock started without -p reaches app.run with port
\* 5000; started with -p N, N an integer, it reaches app.run with port N
\* (the last N, when -p is given more than once).
C12_PortGivenOrDefault ==
    proc.state # "idle" =>
        /\ C12_NoPortOption => proc.state = "run" /\ proc.port = 5000
        /\ \A w \in Words :
            (proc.argv = <<<<"-", "p">>, w>> /\ py_int(w).ok)
                => proc.state = "run" /\ proc.port = py_int(w).val

\* the FSM mock started with no argument ended in UnboundLocalError
C12_Witness ==
    /\ proc.prog = "fsm"
    /\ proc.argv = <<>>
    /\ proc.state = "UnboundLocalError"

(***************************************************************************)
(* The claims about requests handled concurrently.                         *)
(***************************************************************************)
\* The SCS's record is not empty and has no ip.
C16_TornRecord ==
    DOMAIN fsm[RaceScs] # {} /\ "ip" \notin DOMAIN fsm[RaceScs]

\* C16: the SCS's record is left with a muffin and no ip or port, and the
\* FSM's iteration over scs_map finds the map changed, only in executions
\* where a request began while another was in flight; handled one after
\* the other, the requests give neither.
C16_RacesNeedOverlap ==
    (C16_TornRecord \/ inflight.list.pc = "RuntimeError") => inflight.raced

\* GET /fsm pulled the muffin, DELETE /fsm emptied the record, then the
\* GET stored the muffin: no request is in flight and the record is torn
C16_Witness ==
    /\ \A t \in Threads : ~req_waiting(t)
    /\ ~list_waiting
    /\ DOMAIN fsm[RaceScs] = {"muffin"}
    /\ RaceScs \notin map_ids(scs_map)

====
